---- MODULE Spec2Model ----
(***************************************************************************)
(* State-machine model of inject/proto-tap.js (ProtoTap v2): the relay     *)
(* forwarder with its offline queue and reconnect backoff, the dual-format *)
(* frame decoder, the ring buffers, the in-page event bus and the socket   *)
(* registry with its interception proxy.                                   *)
(*                                                                         *)
(* Every handler of the script runs to completion on one thread, so each   *)
(* handler is one action.  The variable obs is not program state: it is    *)
(* the observable trace of the last handler (what it tried to send on the  *)
(* relay, which timers it armed, what it published ...).                   *)
(***************************************************************************)
EXTENDS Integers, Sequences, FiniteSets, TLC

\* ---------------------------------------------------------------- bounds
\* Records forwarded on top of the initial backlog in SpecRelay.
MaxForwards == 3
\* Frames delivered to the connections.
MaxFrames == 2
\* Frames delivered to the connections in SpecSock.
MaxSockFrames == 1
\* busOn and busOff calls made.
MaxBusOps == 4
\* Messages delivered to the connection in SpecBus.
MaxBusFrames == 1
\* Messages delivered to the connection in SpecRing.
MaxRingFrames == 3
\* The rings of SpecRing start within RingSlack of empty or of full.
RingSlack == 1
\* Messages delivered to the connection in SpecBlob.
MaxBlobFrames == 3
\* patchSocket calls made on one connection.
MaxPatches == 3
\* WebSocket objects the page creates.
MaxConns == 2
\* Times the relay socket opens.
MaxOpens == 2
\* Sends that succeed before the first failing one while the queue is flushed.
MaxSendsOk == 2
\* The initial backlog of SpecRelay is within BacklogSlack of empty or of full.
BacklogSlack == 1

\* ------------------------------------------------------- program constants
MAX_RETRIES == 8
QUEUE_CAP == 500
BACKOFF_UNIT == 1000
BACKOFF_CAP == 30000
RING_SIZE == 200
UNKNOWN_RING == 500
HEADER_LEN == 6
RAW_PREFIX == 32
URL_KEEP == 80
CONNECTING == 0
OPEN == 1
CLOSING == 2
CLOSED == 3

\* relay === null
Null == [isNull |-> TRUE]

VARIABLES
  relay,          \* the relay WebSocket: Null or [readyState |-> 0..3]
  relayOk,        \* set by onopen, cleared by onclose
  retries,        \* consecutive closures since the last open
  queue,          \* offline queue of serialized records
  timers,         \* pending setTimeout(openRelay, delay): the delays
  protobufRoot,   \* window.protobuf.roots['default'] exists
  pb,             \* pb has been resolved (it is then Root)
  msgIdMaps,      \* namespace -> (id -> type name), built by buildIdMap
  idToType,       \* _idToType: id -> [ns, typeName]
  pbPoll,         \* the 100 ms readiness interval is still armed
  lastEvents,     \* ring buffer of decoded events
  unknownFrames,  \* ring buffer of unknown frames
  lastRoomId,     \* _lastRoomId
  handlers,       \* _handlers: topic -> handlers, in insertion order
  conn,           \* the WebSocket objects of the page
  sockets,        \* the registry Map, as its entries <<url, ws>> in insertion order
  patchedSockets, \* _patchedSockets
  blobReads,      \* Blob payloads whose arrayBuffer() promise is pending: [ws, url, bytes, seq]
  hist,           \* history counters (not program state), see HistNone
  obs             \* history: trace of the last handler, see ObsNone

relayVars == <<relay, relayOk, retries, queue, timers>>
pbVars == <<protobufRoot, pb, msgIdMaps, idToType, pbPoll>>
ringVars == <<lastEvents, unknownFrames, lastRoomId>>
busVars == <<handlers>>
blobVars == <<blobReads>>
sockVars == <<conn, sockets, patchedSockets>>
tapVars == <<pbVars, ringVars, busVars, blobVars, sockVars>>
vars == <<relayVars, pbVars, ringVars, busVars, blobVars, sockVars, hist, obs>>

\* History counters: they bound the exploration and name the claims' cases.
HistNone ==
  [ seq      |-> 0,    \* records handed to relayEmit so far
    nFwd     |-> 0,    \* Forward steps taken
    nOpen    |-> 0,    \* relay opens
    nFrames  |-> 0,    \* frames delivered to connections
    closures |-> 0,    \* relay closures since the last relay open
    ctorFlip |-> 0,    \* flips between 0 and 1 at each new _OrigWS(RELAY_URL) call
    nBus     |-> 0,    \* busOn and busOff calls
    evPushed |-> << >>,    \* every event pushed into lastEvents, in push order
    unkPushed |-> << >>,   \* every entry pushed into unknownFrames, in push order
    lastOp   |-> << >> ]   \* <<topic, fn>> -> the last of "on", "off" called with them

Min(a, b) == IF a < b THEN a ELSE b

\* The trace of a handler that has done nothing yet.
ObsNone ==
  [ op      |-> "init",
    tx      |-> << >>,    \* relay.send attempts: [json, ok]
    fwd     |-> << >>,    \* arguments of the relayEmit calls
    outcome |-> << >>,    \* per relayEmit call: "sent", "queued", "dropped"
    raised  |-> FALSE,    \* an exception left the handler
    sched   |-> << >>,    \* delays of the timers armed
    ctor    |-> 0,        \* relay sockets constructed
    frame   |-> << >>,    \* the bytes delivered to the message listeners
    decodes |-> 0,        \* decodeFrame calls
    wraps   |-> 0,        \* Wrapper.decode calls
    ring    |-> << >>,    \* events pushed into lastEvents
    unk     |-> << >>,    \* entries pushed into unknownFrames
    pub     |-> << >>,    \* busEmit calls: [topic, evt]
    calls   |-> << >>,    \* handler invocations: [fn, sub, arg]
    ret     |-> << >>,    \* what each decodeFrame or sendAction call returned
    args    |-> << >>,    \* sendAction: roomId, action, coin, and whether encode and send succeed
    wsSent  |-> << >>,    \* frames transmitted on game connections: [ws, bytes]
    ws      |-> 0 ]       \* the connection the handler ran for

\* ------------------------------------------------------------------ relay

\* relayEmit with an off-by-one capacity test (queue.length <= 500).
RelayEmitOffByOne(q, ok, json, sendOk) ==
  IF ok /\ sendOk
  THEN [queue |-> q, tx |-> <<[json |-> json, ok |-> TRUE]>>,
        outcome |-> "sent", raised |-> FALSE]
  ELSE [queue   |-> IF Len(q) <= QUEUE_CAP THEN Append(q, json) ELSE q,
        tx      |-> IF ok THEN <<[json |-> json, ok |-> FALSE]>> ELSE << >>,
        outcome |-> IF Len(q) <= QUEUE_CAP THEN "queued" ELSE "dropped",
        raised  |-> FALSE]

\* relayEmit without the try/catch around relay.send: a failing send leaves the
\* function as an exception, before the enqueue.
RelayEmitUnguarded(q, ok, json, sendOk) ==
  IF ok
  THEN [queue |-> q, tx |-> <<[json |-> json, ok |-> sendOk]>>,
        outcome |-> IF sendOk THEN "sent" ELSE "dropped", raised |-> ~sendOk]
  ELSE [queue   |-> IF Len(q) < QUEUE_CAP THEN Append(q, json) ELSE q,
        tx      |-> << >>,
        outcome |-> IF Len(q) < QUEUE_CAP THEN "queued" ELSE "dropped",
        raised  |-> FALSE]

\* relayEmit(json): sendOk is whether relay.send(json) returns normally.
RelayEmit(q, ok, json, sendOk) ==
  IF ok /\ sendOk
  THEN [queue |-> q, tx |-> <<[json |-> json, ok |-> TRUE]>>,
        outcome |-> "sent", raised |-> FALSE]
  ELSE [queue   |-> IF Len(q) < QUEUE_CAP THEN Append(q, json) ELSE q,
        tx      |-> IF ok THEN <<[json |-> json, ok |-> FALSE]>> ELSE << >>,
        outcome |-> IF Len(q) < QUEUE_CAP THEN "queued" ELSE "dropped",
        raised  |-> FALSE]

\* The flush loop without the break: a failing send is swallowed and the loop goes
\* on, so every record is shifted and attempted.
FlushNoBreak(q, nOk) ==
  [queue |-> << >>,
   tx    |-> [i \in 1..Len(q) |-> [json |-> q[i], ok |-> i # Min(nOk, Len(q)) + 1]]]

\* The flush loop of onopen: while (queue.length) { try { relay.send(queue.shift()); }
\* catch (_) { break; } }.  Iteration i shifts q[i] off the queue and sends it; the
\* first nOk sends return normally and the next one (if any) throws, which ends the
\* loop with q[i] already shifted.
Flush(q, nOk) ==
  LET n == Len(q)
      k == Min(nOk, n)        \* iterations whose send succeeds
      m == Min(k + 1, n)      \* iterations run
  IN [queue |-> SubSeq(q, m + 1, n),
      tx    |-> [i \in 1..m |-> [json |-> q[i], ok |-> i <= k]]]

\* Math.min(30000, 1000 * retries * retries)
BackoffDelay(n) == Min(BACKOFF_CAP, BACKOFF_UNIT * n * n)

\* The retry test written retries < MAX_RETRIES.
OnCloseScheduleStrict(n) == IF n < MAX_RETRIES THEN <<BackoffDelay(n)>> ELSE << >>

\* if (++retries <= MAX_RETRIES) setTimeout(openRelay, ...): the timers armed.
OnCloseSchedule(n) == IF n <= MAX_RETRIES THEN <<BackoffDelay(n)>> ELSE << >>

\* openRelay(): ctorOk is whether new WebSocket(RELAY_URL) returns normally.
\* tried is 1 if the constructor was called, ctor is 1 if it returned a socket; a
\* constructor that throws is caught and leaves everything as it was.
OpenRelay(r, ctorOk) ==
  IF r # Null /\ r.readyState <= OPEN THEN [relay |-> r, ctor |-> 0, tried |-> 0]
  ELSE IF ctorOk THEN [relay |-> [readyState |-> CONNECTING], ctor |-> 1, tried |-> 1]
  ELSE [relay |-> r, ctor |-> 0, tried |-> 1]

\* --------------------------------------------------------- schema registry

\* window.protobuf.roots['default'], once the page has loaded it: per namespace the
\* MessageId enum (its entries in declaration order), the envelope codec and the
\* message types that have a codec.  mttPro is not loaded; pineapple has no Wrapper
\* and registers an id for a type it has no codec for.
Root ==
  [ holdem      |-> [ MessageId |-> << <<"MsgNone", 0>>, <<"Ping", 1>>, <<"HoleCardsMsg", 42>> >>,
                      Wrapper   |-> TRUE,
                      types     |-> {"Ping", "HoleCardsMsg", "ActionReq"} ],
    commonProto |-> [ MessageId |-> << <<"LoginRsp", 5>> >>,
                      Wrapper   |-> TRUE,
                      types     |-> {"LoginRsp"} ],
    pineapple   |-> [ MessageId |-> << <<"DealMsg", 9>> >>,
                      types     |-> {} ] ]

SKIP_TOPICS == {"Ping", "Pong", "RealIp", "AnimMsg", "VoiceMsg"}
GAME_NAMESPACES == <<"holdem", "commonProto", "mttPro", "pineapple">>
PRIORITY_ORDER == <<"pineapple", "commonProto", "mttPro", "holdem">>

\* null where a number is expected (msgId, roomId).
None == 0 - 1

HasNs(ns) == ns \in DOMAIN Root
HasMessageId(ns) == HasNs(ns) /\ "MessageId" \in DOMAIN Root[ns]
HasWrapper(ns) == HasNs(ns) /\ "Wrapper" \in DOMAIN Root[ns]
\* pb[ns] && pb[ns][typeName]
HasType(ns, typeName) == HasNs(ns) /\ typeName \in Root[ns].types

\* m[k] = v on a plain object
Put(m, k, v) == [x \in DOMAIN m \cup {k} |-> IF x = k THEN v ELSE m[x]]

\* resolvePb(): the value of pb after the call (the call returns that value too).
ResolvePb(isResolved, rootThere) == isResolved \/ rootThere

\* buildIdMap(ns), for the entries of pb[ns].MessageId from the i-th on.
RECURSIVE IdMapOf(_, _, _)
IdMapOf(m, entries, i) ==
  IF i > Len(entries) THEN m
  ELSE IdMapOf(Put(m, entries[i][2], entries[i][1]), entries, i + 1)

BuildIdMap(maps, ns) ==
  IF ns \in DOMAIN maps \/ ~HasMessageId(ns) THEN maps
  ELSE Put(maps, ns, IdMapOf(<< >>, Root[ns].MessageId, 1))

\* GAME_NAMESPACES.forEach(buildIdMap), from the i-th namespace on.
RECURSIVE BuildIdMaps(_, _)
BuildIdMaps(maps, i) ==
  IF i > Len(GAME_NAMESPACES) THEN maps
  ELSE BuildIdMaps(BuildIdMap(maps, GAME_NAMESPACES[i]), i + 1)

\* lookupMsgId(ns, typeName): Object.entries lists integer keys in ascending order.
LookupMsgId(maps, ns, typeName) ==
  IF ns \notin DOMAIN maps THEN None
  ELSE LET ids == {id \in DOMAIN maps[ns] : maps[ns][id] = typeName}
       IN IF ids = {} THEN None ELSE CHOOSE id \in ids : \A o \in ids : id <= o

\* The inner loop of buildReverseIdMap, from the i-th entry on.
RECURSIVE ReverseEntries(_, _, _, _)
ReverseEntries(m, ns, entries, i) ==
  IF i > Len(entries) THEN m
  ELSE ReverseEntries(
         IF entries[i][2] = 0 THEN m
         ELSE Put(m, entries[i][2], [ns |-> ns, typeName |-> entries[i][1]]),
         ns, entries, i + 1)

\* buildReverseIdMap(), from the i-th namespace of priorityOrder on.
RECURSIVE BuildReverseIdMap(_, _)
BuildReverseIdMap(m, i) ==
  IF i > Len(PRIORITY_ORDER) THEN m
  ELSE LET ns == PRIORITY_ORDER[i]
       IN BuildReverseIdMap(
            IF HasMessageId(ns) THEN ReverseEntries(m, ns, Root[ns].MessageId, 1) ELSE m,
            i + 1)

\* Object.keys(pb).filter(...) of the readiness notification.
Namespaces == DOMAIN Root

\* ----------------------------------------------------- frames and codecs

\* (bytes[0] << 24) | (bytes[1] << 16) | (bytes[2] << 8) | bytes[3], a signed 32-bit
\* value: a first byte of 128 or more makes it negative.
FrameLen(bytes) ==
  (IF bytes[1] >= 128 THEN bytes[1] - 256 ELSE bytes[1]) * 16777216
    + bytes[2] * 65536 + bytes[3] * 256 + bytes[4]

\* (bytes[4] << 8) | bytes[5]
MsgIdOf(bytes) == bytes[5] * 256 + bytes[6]

\* bytes.slice(6)
BodyOf(bytes) == SubSeq(bytes, HEADER_LEN + 1, Len(bytes))

Take(q, n) == SubSeq(q, 1, Min(n, Len(q)))

\* Array.from(bytes).map(b => b.toString(16).padStart(2, '0')): two digits a byte.
Hex(bytes) == [i \in DOMAIN bytes |-> <<bytes[i] \div 16, bytes[i] % 16>>]

\* JSON.stringify
Json(x) == [json |-> x]

\* The message codecs are the page's own protobuf library.  A body whose first byte
\* is 255 is one decoder.decode throws on; any other body decodes to a message
\* whose roomId is its first byte.  The result is the normalised message, or the
\* raw-byte salvage of the catch branch.
DecodeBody(body) ==
  IF body[1] = 255 THEN [raw |-> Take(body, RAW_PREFIX)]
  ELSE [roomId |-> body[1], size |-> Len(body)]

\* decoded && decoded.roomId
HasRoomId(decoded) == "roomId" \in DOMAIN decoded /\ decoded.roomId # 0

\* The envelope topics the frames of the model carry, as dot-separated segments;
\* << >> is the empty string.
TopicOfCode ==
  << <<"holdem", "HoleCardsMsg">>, <<"holdem", "Ping">>, <<"holdem", "LoginRsp">>,
     << >>, <<"Mystery">>, <<"holdem", "ActionReq">>, <<"*">> >>

\* nsObj.Wrapper.decode(bytes): Null where it throws.  An envelope is written
\* 10, topic code, 18, body bytes (the protobuf tags of fields 1 and 2, with the
\* topic string abbreviated to its code); every namespace's Wrapper reads it alike.
WrapperDecode(ns, bytes) ==
  IF Len(bytes) >= 3 /\ bytes[1] = 10 /\ bytes[2] \in DOMAIN TopicOfCode /\ bytes[3] = 18
  THEN [topic |-> TopicOfCode[bytes[2]], body |-> SubSeq(bytes, 4, Len(bytes))]
  ELSE Null

\* s.includes(pat)
Includes(u, pat) ==
  \E i \in 1..(Len(u) - Len(pat) + 1) : SubSeq(u, i, i + Len(pat) - 1) = pat

\* wsUrl.replace(/[?#].*$/, '').substring(0, 80)
TrimUrl(u) ==
  LET cut == {i \in DOMAIN u : u[i] \in {"?", "#"}}
      n == IF cut = {} THEN Len(u) ELSE (CHOOSE i \in cut : \A j \in cut : i <= j) - 1
  IN Take(SubSeq(u, 1, n), URL_KEEP)

\* ----------------------------------------------------- ring buffers and bus

\* pushRing with the shift made only once the ring is two over capacity.
PushRingLate(ring, evt) ==
  LET r == Append(ring, evt) IN IF Len(r) > RING_SIZE + 1 THEN Tail(r) ELSE r

\* pushRing(evt)
PushRing(ring, evt) ==
  LET r == Append(ring, evt) IN IF Len(r) > RING_SIZE THEN Tail(r) ELSE r

\* pushUnknown(entry)
PushUnknown(ring, entry) ==
  LET r == Append(ring, entry) IN IF Len(r) > UNKNOWN_RING THEN Tail(r) ELSE r

WILDCARD == <<"*">>

\* busOn(topic, fn): a Set keeps a member it already has, at its place.
BusOn(h, topic, fn) ==
  IF topic \notin DOMAIN h THEN Put(h, topic, <<fn>>)
  ELSE IF \E i \in DOMAIN h[topic] : h[topic][i] = fn THEN h
  ELSE Put(h, topic, Append(h[topic], fn))

\* busOff(topic, fn)
BusOff(h, topic, fn) ==
  IF topic \notin DOMAIN h THEN h
  ELSE Put(h, topic, SelectSeq(h[topic], LAMBDA x : x # fn))

\* The subscribers' handlers that throw when they are invoked.
THROWING == {"h1"}

\* The invocations busEmit(topic, data) attempts, in order: the handlers of the
\* topic with data, then the wildcard handlers with {topic, ...data} (a topic field
\* of data itself wins over the published topic).  Topics are written as their
\* dot-separated segments.
BusCalls(h, topic, data) ==
  LET exact == IF topic \in DOMAIN h THEN h[topic] ELSE << >>
      wild  == IF WILDCARD \in DOMAIN h THEN h[WILDCARD] ELSE << >>
      named == IF "topic" \in DOMAIN data THEN <<data.topic>> ELSE topic
  IN [i \in 1..Len(exact) |->
        [fn |-> exact[i], sub |-> topic, arg |-> data, threw |-> exact[i] \in THROWING]]
       \o [i \in 1..Len(wild) |->
             [fn |-> wild[i], sub |-> WILDCARD, arg |-> [topic |-> named, data |-> data],
              threw |-> wild[i] \in THROWING]]

\* busEmit without the try/catch around fn(data): the first handler that throws
\* ends the publication.
BusEmitUnguarded(h, topic, data) ==
  LET calls == BusCalls(h, topic, data)
      bad == {i \in DOMAIN calls : calls[i].threw}
  IN IF bad = {} THEN calls
     ELSE SubSeq(calls, 1, CHOOSE i \in bad : \A j \in bad : i <= j)

\* busEmit(topic, data): the handler invocations it makes.  Each one runs inside
\* try/catch, so a handler that throws stops neither the loop nor the caller.
BusEmit(h, topic, data) == BusCalls(h, topic, data)

\* ----------------------------------------------------------------- decode
\* decodeFrame works on D = [pb, queue, lastEvents, unknownFrames, lastRoomId, obs],
\* the state it can change, and reads relayOk, protobufRoot, idToType, msgIdMaps and
\* handlers.  now is Date.now(); sendOk is whether relay.send returns normally.

Return(D, v) == [D EXCEPT !.obs.ret = Append(@, v)]

\* relayEmit(JSON.stringify(rec)) within decodeFrame
Emit(D, rec, sendOk) ==
  LET r == RelayEmit(D.queue, relayOk, Json(rec), sendOk)
  IN [D EXCEPT !.queue = r.queue,
               !.obs.tx = @ \o r.tx,
               !.obs.fwd = Append(@, Json(rec)),
               !.obs.outcome = Append(@, r.outcome),
               !.obs.raised = @ \/ r.raised]

\* busEmit(topic, data) within a handler
Publish(D, topic, data) ==
  [D EXCEPT !.obs.pub = Append(@, [topic |-> topic, evt |-> data]),
            !.obs.calls = @ \o BusEmit(handlers, topic, data)]

\* relayEmit; pushRing; busEmit(typeName, evt) (lines 188-190, 256-258)
Distribute(D, evt, sendOk) ==
  LET D1 == Emit(D, evt, sendOk)
      D2 == [D1 EXCEPT !.lastEvents = PushRing(@, evt), !.obs.ring = Append(@, evt)]
  IN Publish(D2, <<evt.topic>>, evt)

SetRoom(D, decoded) ==
  IF decoded # Null /\ HasRoomId(decoded) THEN [D EXCEPT !.lastRoomId = decoded.roomId] ELSE D

\* topicStr.includes('.') ? topicStr.split('.').pop() : topicStr, read with the first
\* segment taken instead of the last.
TypeNameOfFirst(topic) == topic[1]

\* topicStr.includes('.') ? topicStr.split('.').pop() : topicStr
TypeNameOf(topic) == topic[Len(topic)]

\* The namespace whose codec decodes typeName for an envelope read under ns
\* (lines 225-233): ns itself, else the first of GAME_NAMESPACES that has one.
DecoderNs(ns, typeName) ==
  IF HasType(ns, typeName) THEN ns
  ELSE LET found == {i \in DOMAIN GAME_NAMESPACES : HasType(GAME_NAMESPACES[i], typeName)}
       IN IF found = {} THEN ns
          ELSE GAME_NAMESPACES[CHOOSE i \in found : \A j \in found : i <= j]

\* Lines 214-263: the wrapper loop, from the i-th namespace on.
RECURSIVE WrapperPath(_, _, _, _, _, _)
WrapperPath(D, i, bytes, wsUrl, now, sendOk) ==
  IF i > Len(GAME_NAMESPACES) THEN Return(D, Null)
  ELSE
    LET ns == GAME_NAMESPACES[i]
    IN IF ~HasWrapper(ns) THEN WrapperPath(D, i + 1, bytes, wsUrl, now, sendOk)
       ELSE
         LET w == WrapperDecode(ns, bytes)
             D1 == [D EXCEPT !.obs.wraps = @ + 1]
         IN IF w = Null \/ w.topic = << >>
            THEN WrapperPath(D1, i + 1, bytes, wsUrl, now, sendOk)
            ELSE
              LET typeName == TypeNameOf(w.topic)
                  decoderNs == DecoderNs(ns, typeName)
                  decoded == IF HasType(decoderNs, typeName) /\ Len(w.body) > 0
                             THEN DecodeBody(w.body) ELSE Null
                  evt == [type |-> "proto_event", ns |-> decoderNs, topic |-> typeName,
                          msgId |-> LookupMsgId(msgIdMaps, decoderNs, typeName),
                          ts |-> now, wsUrl |-> TrimUrl(wsUrl), data |-> decoded]
                  D2 == Distribute(SetRoom(D1, decoded), evt, sendOk)
                  D3 == IF decoderNs # ns THEN Publish(D2, <<decoderNs, typeName>>, evt)
                        ELSE D2
              IN IF typeName \in SKIP_TOPICS THEN Return(D1, Null)
                 ELSE Return(D3, evt)

\* Lines 161-192: the id of a length-prefixed frame is in _idToType.
KnownFrame(D, bytes, wsUrl, now, sendOk) ==
  LET msgId == MsgIdOf(bytes)
      ns == idToType[msgId].ns
      typeName == idToType[msgId].typeName
      decoded == IF HasType(ns, typeName) /\ Len(bytes) > HEADER_LEN
                 THEN DecodeBody(BodyOf(bytes)) ELSE Null
      evt == [type |-> "proto_event", ns |-> ns, topic |-> typeName,
              msgId |-> msgId, ts |-> now, wsUrl |-> TrimUrl(wsUrl), data |-> decoded]
  IN IF typeName \in SKIP_TOPICS THEN Return(D, Null)
     ELSE Return(Distribute(SetRoom(D, decoded), evt, sendOk), evt)

\* The unknown-frame capture with the body cut after the length prefix only
\* (bytes.slice(4)).
UnknownFrameShortCut(D, bytes, wsUrl, now, sendOk) ==
  LET body == IF Len(bytes) > HEADER_LEN THEN SubSeq(bytes, 5, Len(bytes)) ELSE << >>
      entry == [type |-> "unknown_frame", msgId |-> MsgIdOf(bytes), len |-> FrameLen(bytes),
                ts |-> now, wsUrl |-> TrimUrl(wsUrl), hex |-> Hex(bytes),
                bodyHex |-> Hex(body), bodyLen |-> Len(body)]
      D1 == [D EXCEPT !.unknownFrames = PushUnknown(@, entry), !.obs.unk = Append(@, entry)]
  IN Return(Emit(D1, entry, sendOk), Null)

\* Lines 194-210: the id of a length-prefixed frame is not in _idToType.
UnknownFrame(D, bytes, wsUrl, now, sendOk) ==
  LET body == IF Len(bytes) > HEADER_LEN THEN BodyOf(bytes) ELSE << >>
      entry == [type |-> "unknown_frame", msgId |-> MsgIdOf(bytes), len |-> FrameLen(bytes),
                ts |-> now, wsUrl |-> TrimUrl(wsUrl), hex |-> Hex(bytes),
                bodyHex |-> Hex(body), bodyLen |-> Len(body)]
      D1 == [D EXCEPT !.unknownFrames = PushUnknown(@, entry), !.obs.unk = Append(@, entry)]
  IN Return(Emit(D1, entry, sendOk), Null)

\* The length-prefixed branch without its closing return: an unknown id is captured
\* and the frame then goes on to the wrapper loop.
LengthPrefixedFallsThrough(D, bytes, wsUrl, now, sendOk) ==
  IF MsgIdOf(bytes) \in DOMAIN idToType
  THEN KnownFrame(D, bytes, wsUrl, now, sendOk)
  ELSE WrapperPath(UnknownFrame(D, bytes, wsUrl, now, sendOk), 1, bytes, wsUrl, now, sendOk)

\* Lines 159-211: the frame is length-prefixed.
LengthPrefixed(D, bytes, wsUrl, now, sendOk) ==
  IF MsgIdOf(bytes) \in DOMAIN idToType
  THEN KnownFrame(D, bytes, wsUrl, now, sendOk)
  ELSE UnknownFrame(D, bytes, wsUrl, now, sendOk)

\* decodeFrame(buffer, wsUrl)
DecodeFrame(D, bytes, wsUrl, now, sendOk) ==
  LET D0 == [D EXCEPT !.obs.decodes = @ + 1]
      D1 == [D0 EXCEPT !.pb = ResolvePb(D.pb, protobufRoot)]
  IN IF ~D1.pb THEN Return(D1, Null)
     ELSE IF Len(bytes) < HEADER_LEN THEN Return(D1, Null)
     ELSE IF FrameLen(bytes) = Len(bytes) /\ FrameLen(bytes) >= HEADER_LEN
          THEN LengthPrefixed(D1, bytes, wsUrl, now, sendOk)
          ELSE WrapperPath(D1, 1, bytes, wsUrl, now, sendOk)

\* ------------------------------------------------------- socket registry
\* URLs are written as their characters.
GAME_URL == <<"w", "s", "s", ":", "/", "/", "g", "/", "?", "k">>
LOCAL_URL == <<"w", "s", ":", "/", "/", "l", "o", "c", "a", "l", "h", "o", "s", "t">>
LOCALHOST == <<"l", "o", "c", "a", "l", "h", "o", "s", "t">>
LOOPBACK_IP == <<"1", "2", "7", ".", "0", ".", "0", ".", "1">>

\* urlStr.includes('localhost') || urlStr.includes('127.0.0.1')
IsLocal(url) == Includes(url, LOCALHOST) \/ Includes(url, LOOPBACK_IP)

\* sockets.get(url): the connection, or None
MapGet(m, url) ==
  IF \E i \in DOMAIN m : m[i].url = url
  THEN m[CHOOSE i \in DOMAIN m : m[i].url = url].ws
  ELSE None

\* sockets.set(url, ws): an existing key keeps its place in the iteration order
MapSet(m, url, ws) ==
  IF \E i \in DOMAIN m : m[i].url = url
  THEN [i \in DOMAIN m |-> IF m[i].url = url THEN [url |-> url, ws |-> ws] ELSE m[i]]
  ELSE Append(m, [url |-> url, ws |-> ws])

\* sockets.delete(url)
RECURSIVE MapDelete(_, _)
MapDelete(m, url) ==
  IF m = << >> THEN << >>
  ELSE IF Head(m).url = url THEN MapDelete(Tail(m), url)
  ELSE <<Head(m)>> \o MapDelete(Tail(m), url)

\* A WebSocket just constructed: the tap has put no listener on it.
\* patches is history: the patchSocket calls made on it.
NewSocket(url) ==
  [url |-> url, readyState |-> CONNECTING, msgL |-> << >>, closeL |-> << >>, patches |-> 0]

\* patchSocket without the _patchedSockets test.
PatchSocketUnguarded(S, ws, url) ==
  [conn           |-> [S.conn EXCEPT ![ws].msgL = Append(@, url),
                                     ![ws].closeL = Append(@, url),
                                     ![ws].patches = @ + 1],
   sockets        |-> MapSet(S.sockets, url, ws),
   patchedSockets |-> S.patchedSockets \cup {ws}]

\* patchSocket(ws, url) on S = [conn, sockets, patchedSockets].  The two listeners
\* are closures over url: a listener is written as the url it holds.
PatchSocket(S, ws, url) ==
  IF ws \in S.patchedSockets THEN [S EXCEPT !.conn[ws].patches = @ + 1]
  ELSE [conn           |-> [S.conn EXCEPT ![ws].msgL = Append(@, url),
                                          ![ws].closeL = Append(@, url),
                                          ![ws].patches = @ + 1],
        sockets        |-> MapSet(S.sockets, url, ws),
        patchedSockets |-> S.patchedSockets \cup {ws}]

\* The close listeners deleting the entry of their url whatever it maps to.
RECURSIVE CloseListenersUnconditional(_, _, _, _)
CloseListenersUnconditional(m, ws, ls, i) ==
  IF i > Len(ls) THEN m
  ELSE CloseListenersUnconditional(MapDelete(m, ls[i]), ws, ls, i + 1)

\* The close listeners of ws, run in the order they were added, from the i-th on:
\* if (sockets.get(url) === ws) sockets.delete(url)
RECURSIVE CloseListeners(_, _, _, _)
CloseListeners(m, ws, ls, i) ==
  IF i > Len(ls) THEN m
  ELSE CloseListeners(IF MapGet(m, ls[i]) = ws THEN MapDelete(m, ls[i]) ELSE m, ws, ls, i + 1)

\* The message listeners of a connection, from the i-th on, on one message event:
\* an ArrayBuffer goes to decodeFrame with the listener's url at once; a Blob starts
\* its arrayBuffer() read, whose continuation will call decodeFrame; any other
\* payload is ignored.
RECURSIVE MessageListeners(_, _, _, _, _, _, _)
MessageListeners(D, ls, i, kind, bytes, now, sendOk) ==
  IF i > Len(ls) THEN D
  ELSE MessageListeners(
         IF kind = "ArrayBuffer" THEN DecodeFrame(D, bytes, ls[i], now, sendOk)
         ELSE IF kind = "Blob"
         THEN [D EXCEPT !.blobReads = Append(@, [ws |-> D.obs.ws, url |-> ls[i],
                                                 bytes |-> bytes, seq |-> now])]
         ELSE D,
         ls, i + 1, kind, bytes, now, sendOk)

\* The send hook on connection c (lines 392-400), before the original send runs.
SendHook(S, c) ==
  IF c \notin S.patchedSockets /\ ~IsLocal(S.conn[c].url)
  THEN PatchSocket(S, c, S.conn[c].url) ELSE S

\* The connection search of sendAction with the readyState test left out.
GameSocketAnyState(m, cs) ==
  LET ok == {i \in DOMAIN m : ~IsLocal(m[i].url)}
  IN IF ok = {} THEN None ELSE m[CHOOSE i \in ok : \A j \in ok : i <= j].ws

\* Lines 313-318: the first entry of the registry, in iteration order, whose url is
\* not a loopback one and whose connection is open; None if there is none.
GameSocket(m, cs) ==
  LET ok == {i \in DOMAIN m : ~IsLocal(m[i].url) /\ cs[m[i].ws].readyState = OPEN}
  IN IF ok = {} THEN None ELSE m[CHOOSE i \in ok : \A j \in ok : i <= j].ws

\* ActionReq.encode({roomId, action, coin}).finish()
ActionBody(roomId, action, coin) == <<roomId, action, coin>>

\* Wrapper.encode({topic: 'holdem.ActionReq', body}).finish(), in the envelope
\* layout WrapperDecode reads.
ActionEnvelope(body) ==
  <<10, CHOOSE t \in DOMAIN TopicOfCode : TopicOfCode[t] = <<"holdem", "ActionReq">>, 18>> \o body

\* sendAction(roomId, action, coin) on S = [conn, sockets, patchedSockets]: what it
\* returns, what it transmits and the registry state it leaves.  encOk and sendOk
\* are whether the encode calls and gameWs.send return normally.
SendAction(S, ready, roomId, action, coin, encOk, sendOk) ==
  LET gameWs == GameSocket(S.sockets, S.conn)
      codecs == HasType("holdem", "ActionReq") /\ HasWrapper("holdem")
  IN IF ~(ready /\ HasNs("holdem")) THEN [ret |-> FALSE, sent |-> << >>, S |-> S]
     ELSE IF gameWs = None THEN [ret |-> FALSE, sent |-> << >>, S |-> S]
     ELSE IF ~(codecs /\ encOk) THEN [ret |-> FALSE, sent |-> << >>, S |-> S]
     ELSE IF ~sendOk THEN [ret |-> FALSE, sent |-> << >>, S |-> SendHook(S, gameWs)]
     ELSE [ret  |-> TRUE,
           sent |-> <<[ws |-> gameWs, bytes |-> ActionEnvelope(ActionBody(roomId, action, coin))]>>,
           S    |-> SendHook(S, gameWs)]

\* ---------------------------------------------------------------- actions

\* relayEmit(json) called with the next record.
Forward(sendOk) ==
  /\ hist.nFwd < MaxForwards
  /\ LET json == [json |-> hist.seq + 1]
         r == RelayEmit(queue, relayOk, json, sendOk)
     IN /\ queue' = r.queue
        /\ obs' = [ObsNone EXCEPT !.op = "relayEmit", !.tx = r.tx, !.fwd = <<json>>,
                                  !.outcome = <<r.outcome>>, !.raised = r.raised]
  /\ hist' = [hist EXCEPT !.seq = @ + 1, !.nFwd = @ + 1]
  /\ UNCHANGED <<relay, relayOk, retries, timers, tapVars>>

\* The relay socket opens: relay.onopen.
RelayOnOpen(nOk) ==
  /\ hist.nOpen < MaxOpens
  /\ relay # Null /\ relay.readyState = CONNECTING
  /\ relay' = [readyState |-> OPEN]
  /\ relayOk' = TRUE
  /\ retries' = 0
  /\ LET r == Flush(queue, nOk)
     IN /\ queue' = r.queue
        /\ obs' = [ObsNone EXCEPT !.op = "onopen", !.tx = r.tx]
  /\ hist' = [hist EXCEPT !.nOpen = @ + 1, !.closures = 0]
  /\ UNCHANGED <<timers, tapVars>>

\* The closing handshake of the relay socket starts; no handler runs.
RelayClosing ==
  /\ relay # Null /\ relay.readyState = OPEN
  /\ relay' = [readyState |-> CLOSING]
  /\ obs' = [ObsNone EXCEPT !.op = "closing"]
  /\ UNCHANGED <<relayOk, retries, queue, timers, hist, tapVars>>

\* The relay socket is closed (after an open, or a failed connect): relay.onclose.
RelayOnClose ==
  /\ relay # Null /\ relay.readyState < CLOSED
  /\ relay' = [readyState |-> CLOSED]
  /\ relayOk' = FALSE
  /\ retries' = retries + 1
  /\ timers' = timers \o OnCloseSchedule(retries + 1)
  /\ hist' = [hist EXCEPT !.closures = @ + 1]
  /\ obs' = [ObsNone EXCEPT !.op = "onclose", !.sched = OnCloseSchedule(retries + 1)]
  /\ UNCHANGED <<queue, tapVars>>

\* A reconnect timer fires: openRelay().
TimerOpenRelay(ctorOk) ==
  /\ timers # << >>
  /\ timers' = Tail(timers)
  /\ LET r == OpenRelay(relay, ctorOk)
     IN /\ relay' = r.relay
        /\ obs' = [ObsNone EXCEPT !.op = "openRelay", !.ctor = r.ctor]
        /\ hist' = [hist EXCEPT !.ctorFlip = (@ + r.tried) % 2]
  /\ UNCHANGED <<relayOk, retries, queue, tapVars>>

\* The page's protobuf library finishes loading: window.protobuf.roots['default'].
ProtobufLoads ==
  /\ ~protobufRoot
  /\ protobufRoot' = TRUE
  /\ obs' = [ObsNone EXCEPT !.op = "protobufLoaded"]
  /\ UNCHANGED <<relayVars, pb, msgIdMaps, idToType, pbPoll, ringVars, busVars, blobVars, sockVars, hist>>

\* A tick of the pbPoll interval (lines 380-388).
PbPollTick ==
  /\ pbPoll
  /\ pb' = ResolvePb(pb, protobufRoot)
  /\ IF pb'
     THEN /\ pbPoll' = FALSE
          /\ msgIdMaps' = BuildIdMaps(msgIdMaps, 1)
          /\ idToType' = BuildReverseIdMap(idToType, 1)
          /\ LET data == [namespaces |-> Namespaces]
             IN obs' = [ObsNone EXCEPT !.op = "pbPoll",
                          !.pub = <<[topic |-> <<"__proto_ready">>, evt |-> data]>>,
                          !.calls = BusEmit(handlers, <<"__proto_ready">>, data)]
     ELSE /\ UNCHANGED <<pbPoll, msgIdMaps, idToType>>
          /\ obs' = [ObsNone EXCEPT !.op = "pbPoll"]
  /\ UNCHANGED <<relayVars, protobufRoot, ringVars, busVars, blobVars, sockVars, hist>>

\* A message event on connection c: its message listeners run (lines 275-281).
ConnMessage(c, kind, bytes, sendOk) ==
  /\ c \in DOMAIN conn /\ conn[c].readyState = OPEN
  /\ LET D0 == [pb |-> pb, queue |-> queue, lastEvents |-> lastEvents,
                unknownFrames |-> unknownFrames, lastRoomId |-> lastRoomId,
                blobReads |-> blobReads,
                obs |-> [ObsNone EXCEPT !.op = "message", !.frame = bytes, !.ws = c]]
         D == MessageListeners(D0, conn[c].msgL, 1, kind, bytes, hist.nFrames + 1, sendOk)
     IN /\ pb' = D.pb
        /\ queue' = D.queue
        /\ lastEvents' = D.lastEvents
        /\ unknownFrames' = D.unknownFrames
        /\ lastRoomId' = D.lastRoomId
        /\ blobReads' = D.blobReads
        /\ obs' = D.obs
        /\ hist' = [hist EXCEPT !.nFrames = @ + 1, !.evPushed = @ \o D.obs.ring,
                                !.unkPushed = @ \o D.obs.unk]
  /\ UNCHANGED <<relay, relayOk, retries, timers, protobufRoot, msgIdMaps, idToType,
                 pbPoll, busVars, sockVars>>

\* The arrayBuffer() promise of the i-th pending Blob read resolves: its continuation
\* runs decodeFrame(buf, url) (line 279).  The promises are independent of one
\* another and of the message events that follow.
BlobRead(i, sendOk) ==
  /\ i \in DOMAIN blobReads
  /\ LET r == blobReads[i]
         D0 == [pb |-> pb, queue |-> queue, lastEvents |-> lastEvents,
                unknownFrames |-> unknownFrames, lastRoomId |-> lastRoomId,
                obs |-> [ObsNone EXCEPT !.op = "blobRead", !.frame = r.bytes, !.ws = r.ws]]
         D == DecodeFrame(D0, r.bytes, r.url, r.seq, sendOk)
     IN /\ pb' = D.pb
        /\ queue' = D.queue
        /\ lastEvents' = D.lastEvents
        /\ unknownFrames' = D.unknownFrames
        /\ lastRoomId' = D.lastRoomId
        /\ obs' = D.obs
        /\ hist' = [hist EXCEPT !.evPushed = @ \o D.obs.ring, !.unkPushed = @ \o D.obs.unk]
  /\ blobReads' = SubSeq(blobReads, 1, i - 1) \o SubSeq(blobReads, i + 1, Len(blobReads))
  /\ UNCHANGED <<relay, relayOk, retries, timers, protobufRoot, msgIdMaps, idToType,
                 pbPoll, busVars, sockVars>>

\* The three registry variables after S.
SockStep(S) ==
  /\ conn' = S.conn
  /\ sockets' = S.sockets
  /\ patchedSockets' = S.patchedSockets

\* new WebSocket(url) through the installed proxy (lines 289-299).
ProxiedWebSocket(url) ==
  /\ Len(conn) < MaxConns
  /\ LET ws == Len(conn) + 1
         S == [conn |-> Append(conn, NewSocket(url)), sockets |-> sockets,
               patchedSockets |-> patchedSockets]
     IN SockStep(IF ~IsLocal(url) THEN PatchSocket(S, ws, url) ELSE S)
  /\ obs' = [ObsNone EXCEPT !.op = "ProxiedWebSocket"]
  /\ UNCHANGED <<relayVars, pbVars, ringVars, busVars, blobVars, hist>>

\* new _OrigWS(url) by code that holds the constructor the proxy replaced: the
\* connection exists but the tap has not seen it.
OrigWebSocket(url) ==
  /\ Len(conn) < MaxConns
  /\ conn' = Append(conn, NewSocket(url))
  /\ obs' = [ObsNone EXCEPT !.op = "OrigWebSocket"]
  /\ UNCHANGED <<relayVars, pbVars, ringVars, busVars, blobVars, sockets, patchedSockets, hist>>

\* ws.send(data) through the send hook (lines 391-402).
WsSend(c) ==
  /\ c \in DOMAIN conn /\ conn[c].patches < MaxPatches
  /\ LET S == [conn |-> conn, sockets |-> sockets, patchedSockets |-> patchedSockets]
     IN SockStep(IF c \notin patchedSockets /\ ~IsLocal(conn[c].url)
                 THEN PatchSocket(S, c, conn[c].url) ELSE S)
  /\ obs' = [ObsNone EXCEPT !.op = "send"]
  /\ UNCHANGED <<relayVars, pbVars, ringVars, busVars, blobVars, hist>>

\* __ProtoTap.attachToSocket(ws) (lines 351-357).
AttachToSocket(c) ==
  /\ c \in DOMAIN conn /\ conn[c].patches < MaxPatches
  /\ SockStep(PatchSocket([conn |-> conn, sockets |-> sockets,
                           patchedSockets |-> patchedSockets], c, conn[c].url))
  /\ obs' = [ObsNone EXCEPT !.op = "attachToSocket"]
  /\ UNCHANGED <<relayVars, pbVars, ringVars, busVars, blobVars, hist>>

\* window.__ProtoTap.sendAction(roomId, action, coin) (lines 310-333).
CallSendAction(roomId, action, coin, encOk, sendOk) ==
  /\ LET r == SendAction([conn |-> conn, sockets |-> sockets,
                          patchedSockets |-> patchedSockets],
                         pb, roomId, action, coin, encOk, sendOk)
     IN /\ SockStep(r.S)
        /\ obs' = [ObsNone EXCEPT !.op = "sendAction", !.ret = <<r.ret>>,
                     !.args = <<roomId, action, coin, encOk, sendOk>>,
                     !.wsSent = r.sent]
  /\ UNCHANGED <<relayVars, pbVars, ringVars, busVars, blobVars, hist>>

\* window.__ProtoTap.on(topic, fn) (lines 132-135).
CallBusOn(topic, fn) ==
  /\ hist.nBus < MaxBusOps
  /\ handlers' = BusOn(handlers, topic, fn)
  /\ hist' = [hist EXCEPT !.nBus = @ + 1, !.lastOp = Put(@, <<topic, fn>>, "on")]
  /\ obs' = [ObsNone EXCEPT !.op = "on"]
  /\ UNCHANGED <<relayVars, pbVars, ringVars, blobVars, sockVars>>

\* window.__ProtoTap.off(topic, fn) (lines 137-139).
CallBusOff(topic, fn) ==
  /\ hist.nBus < MaxBusOps
  /\ handlers' = BusOff(handlers, topic, fn)
  /\ hist' = [hist EXCEPT !.nBus = @ + 1, !.lastOp = Put(@, <<topic, fn>>, "off")]
  /\ obs' = [ObsNone EXCEPT !.op = "off"]
  /\ UNCHANGED <<relayVars, pbVars, ringVars, blobVars, sockVars>>

\* Connection c opens.
ConnOpens(c) ==
  /\ c \in DOMAIN conn /\ conn[c].readyState = CONNECTING
  /\ conn' = [conn EXCEPT ![c].readyState = OPEN]
  /\ obs' = [ObsNone EXCEPT !.op = "open"]
  /\ UNCHANGED <<relayVars, pbVars, ringVars, busVars, blobVars, sockets, patchedSockets, hist>>

\* Connection c closes: its close listeners run (lines 283-285).
ConnCloses(c) ==
  /\ c \in DOMAIN conn /\ conn[c].readyState < CLOSED
  /\ conn' = [conn EXCEPT ![c].readyState = CLOSED]
  /\ sockets' = CloseListeners(sockets, c, conn[c].closeL, 1)
  /\ obs' = [ObsNone EXCEPT !.op = "close", !.ws = c]
  /\ UNCHANGED <<relayVars, pbVars, ringVars, busVars, blobVars, patchedSockets, hist>>

\* --------------------------------------------------------- specifications

\* Numbers of sends that succeed before a flush of n records hits a failure
\* (n itself: no send fails).
SendOkCounts(n) == {k \in 0..n : k <= MaxSendsOk \/ k = n}

\* Backlog sizes SpecRelay starts from.
Backlogs == {n \in 0..QUEUE_CAP : n <= BacklogSlack \/ n >= QUEUE_CAP - BacklogSlack}

\* The tap right after installation: no schema registry yet, nothing decoded, no
\* subscriber, no connection.
InitTap ==
  /\ protobufRoot = FALSE
  /\ pb = FALSE
  /\ msgIdMaps = << >>
  /\ idToType = << >>
  /\ pbPoll = TRUE
  /\ lastEvents = << >>
  /\ unknownFrames = << >>
  /\ lastRoomId = None
  /\ handlers = << >>
  /\ conn = << >>
  /\ sockets = << >>
  /\ patchedSockets = {}
  /\ blobReads = << >>

\* The state after the startup openRelay() (line 378) and a backlog of n records
\* forwarded while the relay is still connecting.
InitRelay ==
  /\ relay \in {[readyState |-> CONNECTING], Null}
  /\ relayOk = FALSE
  /\ retries = 0
  /\ timers = << >>
  /\ \E n \in Backlogs :
       /\ queue = [i \in 1..n |-> [json |-> i]]
       /\ hist = [HistNone EXCEPT !.seq = n]
  /\ obs = ObsNone
  /\ InitTap

NextRelay ==
  \/ \E sendOk \in BOOLEAN : Forward(sendOk)
  \/ \E nOk \in SendOkCounts(Len(queue)) : RelayOnOpen(nOk)
  \/ RelayClosing
  \/ RelayOnClose
  \/ \E ctorOk \in BOOLEAN : TimerOpenRelay(ctorOk)

SpecRelay == InitRelay /\ [][NextRelay]_vars

\* The relay's connection life cycle alone, for what it eventually does.  The
\* startup openRelay() (line 378) has either made a socket or failed to.
InitRelayLive ==
  /\ relay \in {[readyState |-> CONNECTING], Null}
  /\ relayOk = FALSE
  /\ retries = 0
  /\ timers = << >>
  /\ queue = << >>
  /\ hist = HistNone
  /\ obs = ObsNone
  /\ InitTap

NextRelayLive ==
  \/ RelayOnOpen(0)
  \/ RelayClosing
  \/ RelayOnClose
  \/ \E ctorOk \in BOOLEAN : TimerOpenRelay(ctorOk)

\* A timer that is armed fires; a socket that is connecting opens or closes; a
\* socket that is closing closes.  Nothing forces an open relay to close.
SpecRelayLive ==
  /\ InitRelayLive
  /\ [][NextRelayLive]_vars
  /\ WF_vars(\E ctorOk \in BOOLEAN : TimerOpenRelay(ctorOk))
  /\ WF_vars(RelayOnOpen(0) \/ RelayOnClose)

\* --------------------------------------------------- frames of the model

\* A length-prefixed frame: the total length on four bytes, the id on two, the body.
LP(id, body) == <<0, 0, 0, HEADER_LEN + Len(body), id \div 256, id % 256>> \o body

\* An envelope frame carrying topic code t.
Envelope(t, body) == <<10, t, 18>> \o body

Frames ==
  { LP(42, <<7, 1>>),              \* HoleCardsMsg, a body that decodes
    LP(42, <<255, 1>>),            \* HoleCardsMsg, a body the codec rejects
    LP(42, << >>),                 \* HoleCardsMsg, no body
    LP(1, <<7>>),                  \* Ping, in the skip set
    LP(9999, <<7, 1, 2, 3>>),      \* an id no namespace registers
    LP(0, <<7>>),                  \* id 0
    LP(5, <<3>>),                  \* LoginRsp of commonProto
    LP(9, <<3>>),                  \* DealMsg of pineapple, which has no codec
    <<0, 0, 0, 5, 1>>,             \* shorter than a header
    <<0, 0, 0, 9, 0, 42, 7, 1>>,   \* declared length 9, actual 8
    <<128, 0, 0, 8, 0, 42, 7, 1>>, \* declared length negative as a 32-bit value
    Envelope(1, <<7, 1, 0>>),      \* holdem.HoleCardsMsg
    Envelope(1, <<255, 1, 0>>),    \* holdem.HoleCardsMsg, a body the codec rejects
    Envelope(2, <<7, 1, 0>>),      \* holdem.Ping
    Envelope(3, <<3, 1, 0>>),      \* holdem.LoginRsp: the codec is commonProto's
    Envelope(4, <<1, 1, 1>>),      \* an empty topic
    Envelope(5, <<1, 1, 1>>) }     \* a type no namespace has

\* Subscriptions of the decode specification: one exact, one wildcard, one composite.
Subscribed ==
  (<<"HoleCardsMsg">> :> <<"h1">>) @@ (WILDCARD :> <<"h2">>)
    @@ (<<"commonProto", "LoginRsp">> :> <<"h3">>)

\* One game connection, made through the proxy and open; the relay either still
\* connecting or open; subscribers or none; the schema registry not loaded yet.
InitDecode ==
  /\ \/ relay = [readyState |-> CONNECTING] /\ relayOk = FALSE
     \/ relay = [readyState |-> OPEN] /\ relayOk = TRUE
  /\ retries = 0
  /\ queue = << >>
  /\ timers = << >>
  /\ protobufRoot = FALSE
  /\ pb = FALSE
  /\ msgIdMaps = << >>
  /\ idToType = << >>
  /\ pbPoll = TRUE
  /\ lastEvents = << >>
  /\ unknownFrames = << >>
  /\ lastRoomId = None
  /\ handlers \in {<< >>, Subscribed}
  /\ conn = <<[url |-> GAME_URL, readyState |-> OPEN, msgL |-> <<GAME_URL>>,
               closeL |-> <<GAME_URL>>, patches |-> 1]>>
  /\ sockets = <<[url |-> GAME_URL, ws |-> 1]>>
  /\ patchedSockets = {1}
  /\ blobReads = << >>
  /\ hist = HistNone
  /\ obs = ObsNone

NextDecode ==
  \/ ProtobufLoads
  \/ PbPollTick
  \/ \E bytes \in Frames, sendOk \in BOOLEAN :
       hist.nFrames < MaxFrames /\ ConnMessage(1, "ArrayBuffer", bytes, sendOk)

SpecDecode == InitDecode /\ [][NextDecode]_vars

\* The room and the actions sendAction is called with.
ROOM == 7
Actions == {1, 2}

\* The frame of the registry specification: one that decodes.
SockFrames == {LP(42, <<7, 1>>)}

\* The tap before the page has made a connection: the relay connecting, the
\* schema registry loaded and polled.
InitSock ==
  /\ relay = [readyState |-> CONNECTING]
  /\ relayOk = FALSE
  /\ retries = 0
  /\ queue = << >>
  /\ timers = << >>
  /\ \/ /\ protobufRoot = TRUE
        /\ pb = TRUE
        /\ pbPoll = FALSE
        /\ msgIdMaps = BuildIdMaps(<< >>, 1)
        /\ idToType = BuildReverseIdMap(<< >>, 1)
     \/ /\ protobufRoot = FALSE
        /\ pb = FALSE
        /\ pbPoll = TRUE
        /\ msgIdMaps = << >>
        /\ idToType = << >>
  /\ lastEvents = << >>
  /\ unknownFrames = << >>
  /\ lastRoomId = None
  /\ handlers = << >>
  /\ conn = << >>
  /\ sockets = << >>
  /\ patchedSockets = {}
  /\ blobReads = << >>
  /\ hist = HistNone
  /\ obs = ObsNone

NextSock ==
  \/ \E url \in {GAME_URL, LOCAL_URL} : ProxiedWebSocket(url)
  \/ \E url \in {GAME_URL, LOCAL_URL} : OrigWebSocket(url)
  \/ \E c \in DOMAIN conn : WsSend(c)
  \/ \E c \in DOMAIN conn : AttachToSocket(c)
  \/ \E c \in DOMAIN conn : ConnOpens(c)
  \/ \E c \in DOMAIN conn : ConnCloses(c)
  \/ \E c \in DOMAIN conn, kind \in {"ArrayBuffer", "text"}, bytes \in SockFrames :
       hist.nFrames < MaxSockFrames /\ ConnMessage(c, kind, bytes, TRUE)
  \/ \E action \in Actions, encOk \in BOOLEAN, sendOk \in BOOLEAN :
       CallSendAction(ROOM, action, 0, encOk, sendOk)

SpecSock == InitSock /\ [][NextSock]_vars

\* The frames the transport can deliver as its j-th message in SpecBlob: the body
\* starts with j, so what is decoded from it tells which message it was.
BlobFrames(j) == {LP(42, <<j, 1>>), Envelope(1, <<j, 1, 0>>), LP(9999, <<j>>)}

\* One game connection, made through the proxy and open, with the schema registry
\* loaded and polled, subscribers on the bus, and the relay connecting or open.
InitBlob ==
  /\ \/ relay = [readyState |-> CONNECTING] /\ relayOk = FALSE
     \/ relay = [readyState |-> OPEN] /\ relayOk = TRUE
  /\ retries = 0
  /\ queue = << >>
  /\ timers = << >>
  /\ protobufRoot = TRUE
  /\ pb = TRUE
  /\ pbPoll = FALSE
  /\ msgIdMaps = BuildIdMaps(<< >>, 1)
  /\ idToType = BuildReverseIdMap(<< >>, 1)
  /\ lastEvents = << >>
  /\ unknownFrames = << >>
  /\ lastRoomId = None
  /\ handlers = Subscribed
  /\ conn = <<[url |-> GAME_URL, readyState |-> OPEN, msgL |-> <<GAME_URL>>,
               closeL |-> <<GAME_URL>>, patches |-> 1]>>
  /\ sockets = <<[url |-> GAME_URL, ws |-> 1]>>
  /\ patchedSockets = {1}
  /\ blobReads = << >>
  /\ hist = HistNone
  /\ obs = ObsNone

NextBlob ==
  \/ \E kind \in {"ArrayBuffer", "Blob"}, bytes \in BlobFrames(hist.nFrames + 1),
        sendOk \in BOOLEAN :
       hist.nFrames < MaxBlobFrames /\ ConnMessage(1, kind, bytes, sendOk)
  \/ \E i \in DOMAIN blobReads, sendOk \in BOOLEAN : BlobRead(i, sendOk)

SpecBlob == InitBlob /\ [][NextBlob]_vars

\* The topics and handlers of the subscribers in SpecBus, and the frames delivered:
\* a HoleCardsMsg, and an envelope whose topic string is "*".
BusTopics == {<<"HoleCardsMsg">>, WILDCARD}
BusFns == {"h1", "h2"}
BusFrames == {LP(42, <<7, 1>>), Envelope(7, <<7, 1, 0>>)}

\* InitBlob with no subscriber yet.
InitBus ==
  /\ relay = [readyState |-> OPEN] /\ relayOk = TRUE
  /\ retries = 0
  /\ queue = << >>
  /\ timers = << >>
  /\ protobufRoot = TRUE
  /\ pb = TRUE
  /\ pbPoll = FALSE
  /\ msgIdMaps = BuildIdMaps(<< >>, 1)
  /\ idToType = BuildReverseIdMap(<< >>, 1)
  /\ lastEvents = << >>
  /\ unknownFrames = << >>
  /\ lastRoomId = None
  /\ handlers = << >>
  /\ conn = <<[url |-> GAME_URL, readyState |-> OPEN, msgL |-> <<GAME_URL>>,
               closeL |-> <<GAME_URL>>, patches |-> 1]>>
  /\ sockets = <<[url |-> GAME_URL, ws |-> 1]>>
  /\ patchedSockets = {1}
  /\ blobReads = << >>
  /\ hist = HistNone
  /\ obs = ObsNone

NextBus ==
  \/ \E topic \in BusTopics, fn \in BusFns : CallBusOn(topic, fn)
  \/ \E topic \in BusTopics, fn \in BusFns : CallBusOff(topic, fn)
  \/ \E bytes \in BusFrames :
       hist.nFrames < MaxBusFrames /\ ConnMessage(1, "ArrayBuffer", bytes, TRUE)

SpecBus == InitBus /\ [][NextBus]_vars

\* The i-th of the events and of the unknown frames a long session has put into
\* the rings before SpecRing starts.
PastEvent(i) ==
  [type |-> "proto_event", ns |-> "holdem", topic |-> "HoleCardsMsg", msgId |-> 42,
   ts |-> 0, wsUrl |-> TrimUrl(GAME_URL), data |-> [roomId |-> i, size |-> 2]]
PastUnknown(i) ==
  [type |-> "unknown_frame", msgId |-> 9999, len |-> 7, ts |-> 0, wsUrl |-> TrimUrl(GAME_URL),
   hex |-> Hex(LP(9999, <<i % 256>>)), bodyHex |-> Hex(<<i % 256>>), bodyLen |-> 1]

\* Ring fills SpecRing starts from, for a ring of capacity cap.
Fills(cap) == {n \in 0..cap : n <= RingSlack \/ n >= cap - RingSlack}

RingFrames == {LP(42, <<7, 1>>), LP(9999, <<7>>), Envelope(1, <<7, 1, 0>>), LP(1, <<7>>)}

\* InitBlob after a session that has filled the rings to some degree.
InitRing ==
  /\ relay = [readyState |-> OPEN] /\ relayOk = TRUE
  /\ retries = 0
  /\ queue = << >>
  /\ timers = << >>
  /\ protobufRoot = TRUE
  /\ pb = TRUE
  /\ pbPoll = FALSE
  /\ msgIdMaps = BuildIdMaps(<< >>, 1)
  /\ idToType = BuildReverseIdMap(<< >>, 1)
  /\ \E n \in Fills(RING_SIZE), m \in Fills(UNKNOWN_RING) :
       /\ lastEvents = [i \in 1..n |-> PastEvent(i)]
       /\ unknownFrames = [i \in 1..m |-> PastUnknown(i)]
       /\ hist = [HistNone EXCEPT !.evPushed = [i \in 1..n |-> PastEvent(i)],
                                  !.unkPushed = [i \in 1..m |-> PastUnknown(i)]]
  /\ lastRoomId = None
  /\ handlers = << >>
  /\ conn = <<[url |-> GAME_URL, readyState |-> OPEN, msgL |-> <<GAME_URL>>,
               closeL |-> <<GAME_URL>>, patches |-> 1]>>
  /\ sockets = <<[url |-> GAME_URL, ws |-> 1]>>
  /\ patchedSockets = {1}
  /\ blobReads = << >>
  /\ obs = ObsNone

NextRing ==
  \E bytes \in RingFrames :
    hist.nFrames < MaxRingFrames /\ ConnMessage(1, "ArrayBuffer", bytes, TRUE)

SpecRing == InitRing /\ [][NextRing]_vars

\* ----------------------------------------------------------------- claims

\* Some send of the trace t returned normally.
SentOk(t) == \E i \in DOMAIN t.tx : t.tx[i].ok

\* C1: the offline queue never holds more than 500 records, and a relayEmit call
\* made while the queue holds 500 records and the record cannot be sent leaves the
\* queue as it was (the new record is dropped, nothing older is evicted).
C1_QueueBounded ==
  /\ [](Len(queue) <= QUEUE_CAP)
  /\ [][(obs'.op = "relayEmit" /\ Len(queue) = QUEUE_CAP /\ ~SentOk(obs'))
          => queue' = queue]_vars

\* C1 witness: a record was handed to relayEmit with the queue full and was dropped.
C1_Witness ==
  /\ obs.op = "relayEmit"
  /\ obs.outcome = <<"dropped">>
  /\ Len(queue) = QUEUE_CAP
  /\ queue[QUEUE_CAP] # obs.fwd[1]

\* C2: onopen flushes the queue in FIFO order and stops at the first send that
\* fails: with k the number of sends that succeeded, the k oldest records were sent, in queue order; if k is the
\* whole queue nothing else was attempted and the queue is empty; otherwise exactly
\* one more send was attempted, on record k+1, it failed, and the records behind
\* it stay queued in their order.
C2_FlushFifo ==
  [][obs'.op = "onopen" =>
      LET tx == obs'.tx
          k  == Cardinality({i \in DOMAIN tx : tx[i].ok})
      IN /\ k <= Len(queue)
         /\ \A i \in 1..k : tx[i] = [json |-> queue[i], ok |-> TRUE]
         /\ IF k = Len(queue)
            THEN Len(tx) = k /\ queue' = << >>
            ELSE /\ Len(tx) = k + 1
                 /\ tx[k + 1] = [json |-> queue[k + 1], ok |-> FALSE]
                 /\ queue' = SubSeq(queue, k + 2, Len(queue))]_vars

\* C2 witness: a flush sent some records, then a send failed with records behind it.
C2_Witness ==
  /\ obs.op = "onopen"
  /\ Len(obs.tx) >= 2
  /\ obs.tx[1].ok
  /\ ~obs.tx[Len(obs.tx)].ok
  /\ Len(queue) >= 2

\* The delays of the claim, for the closures 1..8 that follow an open.
BackoffTable == <<1000, 4000, 9000, 16000, 25000, 30000, 30000, 30000>>

\* C3: the k-th consecutive closure (k = 1..8) arms exactly one reconnect timer, of
\* delay BackoffTable[k]; the 9th arms none and no connection attempt follows it;
\* never more than one reconnect is pending; an open resets the attempt counter, so
\* that the closure after it is again a first one.
C3_Backoff ==
  /\ [][obs'.op = "onclose" =>
          LET k == hist'.closures
          IN /\ retries' = k
             /\ IF k <= 8
                THEN obs'.sched = <<BackoffTable[k]>> /\ timers' = Append(timers, BackoffTable[k])
                ELSE obs'.sched = << >> /\ timers' = timers]_vars
  /\ [][hist.closures >= 9 => (obs'.op # "openRelay" /\ obs'.ctor = 0 /\ relay' = relay)]_vars
  /\ [](hist.closures >= 9 => timers = << >>)
  /\ [](Len(timers) <= 1)
  /\ [][obs'.op = "onopen" => retries' = 0]_vars

\* C3 witness: the relay opened once and then closed nine times in a row.
C3_Witness ==
  /\ obs.op = "onclose"
  /\ hist.nOpen >= 1
  /\ hist.closures = 9
  /\ timers = << >>

\* The queue after json has been offered to it.
Enqueued(q, json) == IF Len(q) < QUEUE_CAP THEN Append(q, json) ELSE q

\* C4: relayEmit never raises.  With the relay open (relayOk) it attempts exactly
\* one send, of the record, and enqueues the record (capacity permitting) only if
\* that send failed; with the relay not open it attempts no send and enqueues.
C4_ForwardNeverRaises ==
  [][obs'.op = "relayEmit" =>
      LET json == obs'.fwd[1]
      IN /\ ~obs'.raised
         /\ Len(obs'.fwd) = 1
         /\ IF relayOk
            THEN /\ Len(obs'.tx) = 1 /\ obs'.tx[1].json = json
                 /\ queue' = IF obs'.tx[1].ok THEN queue ELSE Enqueued(queue, json)
            ELSE /\ obs'.tx = << >>
                 /\ queue' = Enqueued(queue, json)]_vars

\* C4 witness: with the relay open a send failed and the record was enqueued.
C4_Witness ==
  /\ obs.op = "relayEmit"
  /\ relayOk
  /\ obs.tx = <<[json |-> obs.fwd[1], ok |-> FALSE]>>
  /\ queue # << >> /\ queue[Len(queue)] = obs.fwd[1]

\* The first four bytes of the frame, read as an unsigned big-endian integer, are
\* n (for n below 2^24, as every frame length of the model is).
BigEndianIs(bytes, n) ==
  bytes[1] = 0 /\ bytes[2] * 65536 + bytes[3] * 256 + bytes[4] = n

\* A length-prefixed frame: the declared length is the total length, 6 or more.
IsLengthPrefixed(bytes) == Len(bytes) >= 6 /\ BigEndianIs(bytes, Len(bytes))

\* The message id in the header of a length-prefixed frame.
HeaderId(bytes) == bytes[5] * 256 + bytes[6]

\* The <<name, id>> entries of the configured namespaces' MessageId mappings that
\* register id for a type that is not skipped and has a codec.
Registrations(id) ==
  { e \in UNION { {Root[ns].MessageId[k] : k \in DOMAIN Root[ns].MessageId} :
                  ns \in {GAME_NAMESPACES[i] : i \in DOMAIN GAME_NAMESPACES} \cap DOMAIN Root } :
      /\ e[2] = id
      /\ e[1] \notin SKIP_TOPICS
      /\ \E ns \in DOMAIN Root : e[1] \in Root[ns].types }

\* The number of busEmit calls of trace t on topic.
Published(t, topic) == Cardinality({i \in DOMAIN t.pub : t.pub[i].topic = topic})

\* C5: while the schema registry is available, a length-prefixed frame whose id is
\* registered for a non-skipped, decodable type and that arrives on the instrumented
\* connection yields exactly one DecodedEvent with that id: one push into the
\* decoded-events ring, one publication on the type-name topic, one relayEmit call,
\* and no UnknownFrame.
C5_KnownIdDecodes ==
  (obs.op = "message" /\ protobufRoot /\ IsLengthPrefixed(obs.frame)
     /\ Registrations(HeaderId(obs.frame)) # {})
  => /\ Len(obs.ring) = 1
     /\ obs.ring[1].msgId = HeaderId(obs.frame)
     /\ \E e \in Registrations(HeaderId(obs.frame)) : Published(obs, <<e[1]>>) = 1
     /\ lastEvents # << >> /\ lastEvents[Len(lastEvents)] = obs.ring[1]
     /\ obs.fwd = <<Json(obs.ring[1])>>
     /\ obs.unk = << >>

\* What the trace t of a message handler shows when the frame was recorded as one
\* UnknownFrame and as nothing else.
OneUnknownFrame(t) ==
  /\ t.ring = << >>
  /\ t.pub = << >>
  /\ t.calls = << >>
  /\ Len(t.unk) = 1
  /\ t.unk[1].type = "unknown_frame"
  /\ t.unk[1].msgId = HeaderId(t.frame)
  /\ t.unk[1].len = Len(t.frame)
  /\ t.unk[1].bodyLen = Len(t.frame) - 6
  /\ t.fwd = <<Json(t.unk[1])>>

\* The unknown-frames ring after one push of entry, below and at capacity.
UnknownPushed(ring, entry) ==
  IF Len(ring) < UNKNOWN_RING THEN Append(ring, entry) ELSE Append(Tail(ring), entry)

\* C6 as stated: a length-prefixed frame whose id is not in the reverse-id map
\* yields exactly one UnknownFrame (id, declared length, body length = total - 6),
\* pushed once and forwarded once, no DecodedEvent and no publication.
C6_Original ==
  [][(obs'.op = "message" /\ IsLengthPrefixed(obs'.frame)
        /\ HeaderId(obs'.frame) \notin DOMAIN idToType)
      => /\ OneUnknownFrame(obs')
         /\ unknownFrames' = UnknownPushed(unknownFrames, obs'.unk[1])
         /\ lastEvents' = lastEvents]_vars

\* C6 amended: the same, for a frame that arrives while the schema registry is
\* available.
C6_UnknownIdCaptured ==
  [][(obs'.op = "message" /\ protobufRoot /\ IsLengthPrefixed(obs'.frame)
        /\ HeaderId(obs'.frame) \notin DOMAIN idToType)
      => /\ OneUnknownFrame(obs')
         /\ unknownFrames' = UnknownPushed(unknownFrames, obs'.unk[1])
         /\ lastEvents' = lastEvents]_vars

\* C6 witness: with the reverse-id map built, a frame with an id that is not in it
\* was captured.
C6_Witness ==
  /\ obs.op = "message"
  /\ idToType # << >>
  /\ IsLengthPrefixed(obs.frame)
  /\ HeaderId(obs.frame) \notin DOMAIN idToType
  /\ Len(obs.unk) = 1 /\ obs.unk[1].bodyLen = 4
  /\ unknownFrames[Len(unknownFrames)] = obs.unk[1]

\* C7: for a frame whose first four bytes are its total length, 6 or more, no
\* Wrapper.decode is ever called, and with the schema registry available what
\* happens is what the length-prefixed branch does: an id in the reverse-id map gives
\* an event carrying that id, or nothing for a skipped type; an id not in it gives
\* an UnknownFrame.
C7_NoWrapperFallThrough ==
  (obs.op = "message" /\ IsLengthPrefixed(obs.frame))
  => /\ obs.wraps = 0
     /\ protobufRoot =>
          IF HeaderId(obs.frame) \in DOMAIN idToType
          THEN /\ obs.unk = << >>
               /\ IF idToType[HeaderId(obs.frame)].typeName \in SKIP_TOPICS
                  THEN obs.ring = << >>
                  ELSE Len(obs.ring) = 1 /\ obs.ring[1].msgId = HeaderId(obs.frame)
          ELSE Len(obs.unk) = 1 /\ obs.ring = << >>

\* C7 witness: a length-prefixed frame with an unknown id was handled with the
\* reverse-id map built and the wrapper codecs present.
C7_Witness ==
  /\ obs.op = "message"
  /\ IsLengthPrefixed(obs.frame)
  /\ pb /\ ~pbPoll
  /\ HeaderId(obs.frame) \notin DOMAIN idToType
  /\ obs.wraps = 0
  /\ obs.ret = <<Null>>

\* The envelope the wrapper loop settles on for a frame: the one read by the first
\* configured namespace whose Wrapper decodes it to a non-empty topic.
EnvelopeOf(bytes) ==
  LET ok == {i \in DOMAIN GAME_NAMESPACES :
               /\ HasWrapper(GAME_NAMESPACES[i])
               /\ WrapperDecode(GAME_NAMESPACES[i], bytes) # Null
               /\ WrapperDecode(GAME_NAMESPACES[i], bytes).topic # << >>}
  IN IF ok = {} THEN Null
     ELSE WrapperDecode(GAME_NAMESPACES[CHOOSE i \in ok : \A j \in ok : i <= j], bytes)

\* The frame resolves to a type name of the skip set: through the reverse-id map
\* if it is length-prefixed, else through the last segment of its envelope topic.
ResolvesToSkipped(bytes) ==
  /\ Len(bytes) >= 6
  /\ IF IsLengthPrefixed(bytes)
     THEN /\ HeaderId(bytes) \in DOMAIN idToType
          /\ idToType[HeaderId(bytes)].typeName \in SKIP_TOPICS
     ELSE /\ EnvelopeOf(bytes) # Null
          /\ EnvelopeOf(bytes).topic[Len(EnvelopeOf(bytes).topic)] \in SKIP_TOPICS

\* C8: a frame that resolves to a skipped type changes neither ring buffer, makes
\* no relayEmit call (no send, no enqueue) and publishes nothing.
C8_SkippedIsSilent ==
  [][(obs'.op = "message" /\ ResolvesToSkipped(obs'.frame))
      => /\ lastEvents' = lastEvents /\ obs'.ring = << >>
         /\ unknownFrames' = unknownFrames /\ obs'.unk = << >>
         /\ queue' = queue /\ obs'.fwd = << >> /\ obs'.tx = << >>
         /\ obs'.pub = << >> /\ obs'.calls = << >>]_vars

\* C8 witness: with the registry available and events already in the ring, an
\* envelope frame whose topic ends in a skipped type was read by a Wrapper.
C8_Witness ==
  /\ obs.op = "message"
  /\ pb
  /\ ~IsLengthPrefixed(obs.frame)
  /\ ResolvesToSkipped(obs.frame)
  /\ obs.wraps >= 1
  /\ lastEvents # << >>

\* C9: a connection carries one message listener and one close listener of the tap
\* once patchSocket has been called on it, however often and from whichever of the
\* proxy, the send hook and attachToSocket, and none before; so a message event is
\* decoded at most once.
C9_InstrumentedOnce ==
  /\ \A c \in DOMAIN conn :
       /\ Len(conn[c].msgL) = (IF conn[c].patches >= 1 THEN 1 ELSE 0)
       /\ Len(conn[c].closeL) = (IF conn[c].patches >= 1 THEN 1 ELSE 0)
       /\ c \in patchedSockets <=> conn[c].patches >= 1
  /\ obs.op = "message" => (obs.decodes <= 1 /\ Len(obs.ring) + Len(obs.unk) <= 1)

\* C9 witness: a frame was decoded, once, on a connection patchSocket was called on
\* three times.
C9_Witness ==
  /\ obs.op = "message"
  /\ conn[obs.ws].patches >= 3
  /\ obs.decodes = 1
  /\ Len(obs.ring) = 1

\* C10: the registry holds at most one entry per address, and the close of a
\* connection removes exactly the entries that map to that connection: an entry
\* that maps its address to another connection stays.
C10_StaleCloseKeepsEntry ==
  /\ [](\A i, j \in DOMAIN sockets : sockets[i].url = sockets[j].url => i = j)
  /\ [][obs'.op = "close" =>
          /\ \A i \in DOMAIN sockets :
               IF sockets[i].ws = obs'.ws
               THEN MapGet(sockets', sockets[i].url) = None
               ELSE MapGet(sockets', sockets[i].url) = sockets[i].ws
          /\ Len(sockets') <= Len(sockets)]_vars

\* C10 witness: an instrumented connection closed while the registry held a newer
\* connection under its address, which is still there.
C10_Witness ==
  /\ obs.op = "close"
  /\ obs.ws \in patchedSockets
  /\ \E i \in DOMAIN sockets :
       sockets[i].url = conn[obs.ws].url /\ sockets[i].ws > obs.ws

\* C11: a connection whose address contains 'localhost' or '127.0.0.1' is never
\* instrumented (not in the instrumented set, no listener of the tap on it) and
\* never in the registry, after any proxied constructions, sends and attachToSocket
\* calls.
C11_LoopbackUntouched ==
  \A c \in DOMAIN conn :
    IsLocal(conn[c].url) =>
      /\ c \notin patchedSockets
      /\ conn[c].msgL = << >> /\ conn[c].closeL = << >>
      /\ \A i \in DOMAIN sockets : sockets[i].ws # c /\ sockets[i].url # conn[c].url

\* The place in the transport's delivery order of the frame an event was decoded
\* from (the frames of SpecBlob carry it as their first body byte).
ArrivalOf(evt) == evt.data.roomId

\* C12: on one connection every event that is distributed (pushed into the ring,
\* published to the subscribers, forwarded) comes from a frame delivered after the
\* frames of all events distributed before it, whether the payloads were
\* ArrayBuffers or Blobs.
C12_ArrivalOrder ==
  [][(obs'.op \in {"message", "blobRead"} /\ obs'.ring # << >>)
      => /\ obs'.pub # << >> /\ obs'.pub[1].evt = obs'.ring[1]
         /\ obs'.fwd = <<Json(obs'.ring[1])>>
         /\ \A i \in DOMAIN lastEvents :
              ArrivalOf(lastEvents[i]) < ArrivalOf(obs'.ring[1])]_vars

\* The registry entries sendAction may use: not a loopback address, connection open.
Eligible == {i \in DOMAIN sockets :
               ~IsLocal(sockets[i].url) /\ conn[sockets[i].ws].readyState = OPEN}

Subscribes(topic, fn) ==
  <<topic, fn>> \in DOMAIN hist.lastOp /\ hist.lastOp[<<topic, fn>>] = "on"

\* The invocations of fn that trace t shows for its subscription sub.
Invocations(t, sub, fn) ==
  Cardinality({i \in DOMAIN t.calls : t.calls[i].fn = fn /\ t.calls[i].sub = sub})

\* C14: a publication on a topic invokes a handler once if its last operation on
\* that topic was subscribe and not otherwise, invokes the wildcard subscribers
\* likewise, and every exact-topic handler before any wildcard handler.
C14_BusSet ==
  (obs.op = "message" /\ Len(obs.pub) = 1)
  => LET topic == obs.pub[1].topic
     IN /\ \A fn \in BusFns :
             /\ Invocations(obs, topic, fn) = (IF Subscribes(topic, fn) THEN 1 ELSE 0)
             /\ Invocations(obs, WILDCARD, fn) = (IF Subscribes(WILDCARD, fn) THEN 1 ELSE 0)
        /\ \A i, j \in DOMAIN obs.calls :
             (obs.calls[i].sub = topic /\ obs.calls[j].sub = WILDCARD /\ topic # WILDCARD)
             => i < j

\* The type a frame names, for a decoder whose maps are built: through the
\* reverse-id map, or through the last segment of the envelope topic; "" if none.
KnownTypeOf(bytes) ==
  IF Len(bytes) < 6 THEN ""
  ELSE IF IsLengthPrefixed(bytes)
  THEN IF HeaderId(bytes) \in DOMAIN idToType THEN idToType[HeaderId(bytes)].typeName ELSE ""
  ELSE IF bytes[1] >= 128 \/ EnvelopeOf(bytes) = Null THEN ""
  ELSE EnvelopeOf(bytes).topic[Len(EnvelopeOf(bytes).topic)]

\* The message body a frame carries under its scheme.
PayloadOf(bytes) ==
  IF IsLengthPrefixed(bytes) THEN SubSeq(bytes, 7, Len(bytes)) ELSE SubSeq(bytes, 4, Len(bytes))

\* C15: whatever fails while a frame with a known, non-skipped type is handled (the
\* type decoder, a subscriber, the relay send), nothing is raised out of the message
\* callback and the frame still gives its one event: pushed, published to every
\* subscriber of the type topic and of the wildcard, and sent or queued for the
\* relay; a body the decoder rejects gives the raw prefix as payload.  This holds
\* for every frame delivered, so also for those after a failing one.
C15_FailuresContained ==
  (obs.op = "message" /\ pb
     /\ KnownTypeOf(obs.frame) # "" /\ KnownTypeOf(obs.frame) \notin SKIP_TOPICS)
  => LET typeName == KnownTypeOf(obs.frame)
         body == PayloadOf(obs.frame)
     IN /\ ~obs.raised
        /\ Len(obs.ring) = 1
        /\ obs.ring[1].topic = typeName
        /\ lastEvents[Len(lastEvents)] = obs.ring[1]
        /\ (body # << >> /\ body[1] = 255 /\ \E ns \in DOMAIN Root : typeName \in Root[ns].types)
             => obs.ring[1].data = [raw |-> SubSeq(body, 1, Min(32, Len(body)))]
        /\ \A sub \in {<<typeName>>, WILDCARD} :
             sub \in DOMAIN handlers =>
               \A k \in DOMAIN handlers[sub] : Invocations(obs, sub, handlers[sub][k]) >= 1
        /\ obs.fwd[1] = Json(obs.ring[1])
        /\ \/ obs.outcome[1] = "sent" /\ obs.tx = <<[json |-> obs.fwd[1], ok |-> TRUE]>>
           \/ obs.outcome[1] = "queued" /\ queue[Len(queue)] = obs.fwd[1]

\* C15 witness: the first frame had a body its decoder rejected; the second frame
\* was decoded after it, a subscriber threw before another one was invoked, and the
\* relay send threw.
C15_Witness ==
  /\ obs.op = "message"
  /\ Len(lastEvents) = 2
  /\ "raw" \in DOMAIN lastEvents[1].data
  /\ obs.ring = <<lastEvents[2]>>
  /\ \E i, j \in DOMAIN obs.calls : i < j /\ obs.calls[i].threw
  /\ \E i \in DOMAIN obs.tx : ~obs.tx[i].ok

\* The last c items of q, or all of q if it has fewer.
MostRecent(q, c) == SubSeq(q, Len(q) - (IF Len(q) < c THEN Len(q) ELSE c) + 1, Len(q))

\* C16: the decoded-events ring never holds more than 200 items and the unknown-
\* frames ring never more than 500; each holds the most recent min(n, capacity) of
\* the n items pushed so far, in push order, so a push onto a full ring evicts
\* exactly the oldest item.
C16_RingsBounded ==
  /\ Len(lastEvents) <= 200
  /\ Len(unknownFrames) <= 500
  /\ lastEvents = MostRecent(hist.evPushed, 200)
  /\ unknownFrames = MostRecent(hist.unkPushed, 500)

\* C16 witness: an event was pushed onto the full events ring, after an entry had
\* been pushed onto the full unknown-frames ring.
C16_Witness ==
  /\ obs.op = "message"
  /\ obs.ring # << >>
  /\ Len(hist.evPushed) > 200 /\ Len(lastEvents) = 200
  /\ Len(hist.unkPushed) > 500 /\ Len(unknownFrames) = 500

\* The relay has no socket that is connecting or open.
RelayDown == relay = Null \/ relay.readyState > OPEN

\* C17: whenever the relay is down and the retry counter has not exceeded 8, a new
\* connection attempt is eventually made, whether the last attempt ended in a close
\* event or in the constructor throwing.
C17_RelayHeals ==
  \A b \in {0, 1} :
    [] ((RelayDown /\ retries <= MAX_RETRIES /\ hist.ctorFlip = b) => <>(hist.ctorFlip # b))

\* C18: for every DecodedEvent produced, under either framing scheme, each wildcard
\* subscriber is invoked exactly once, also when the event is published on the
\* composite namespace.typeName topic as well.
C18_WildcardOnce ==
  (obs.op = "message" /\ Len(obs.ring) = 1 /\ WILDCARD \in DOMAIN handlers)
  => \A k \in DOMAIN handlers[WILDCARD] :
       Invocations(obs, WILDCARD, handlers[WILDCARD][k]) = 1

\* C19: in every step, each record that was in the offline queue is in it afterwards
\* or was handed to relay.send by a call that returned normally.
C19_QueuedNeverLost ==
  [][\A i \in DOMAIN queue :
       \/ \E k \in DOMAIN queue' : queue'[k] = queue[i]
       \/ \E j \in DOMAIN obs'.tx : obs'.tx[j] = [json |-> queue[i], ok |-> TRUE]]_vars

\* C20: whenever the schema registry is ready and some instrumented connection with
\* a non-loopback address is open, the registry has an entry sendAction can use, and
\* a sendAction call whose encode and send succeed returns true.
C20_OpenConnectionReachable ==
  (pb /\ \E c \in patchedSockets : ~IsLocal(conn[c].url) /\ conn[c].readyState = OPEN)
  => /\ Eligible # {}
     /\ (obs.op = "sendAction" /\ obs.args[4] /\ obs.args[5]) => obs.ret = <<TRUE>>

====
